---- MODULE Spec2Model ----
(***************************************************************************)
(* Model of src/app.py: a Streamlit script that reads a YouTube URL,       *)
(* extracts the video id, acquires a transcript (captions, else yt-dlp     *)
(* audio + Whisper) and summarises it with a chat model.                   *)
(*                                                                         *)
(* Text is modelled as a sequence of one-character strings.  A Python      *)
(* value that may be None is modelled as a sequence of length 0 (None) or  *)
(* 1 (the value).                                                          *)
(***************************************************************************)
EXTENDS Integers, Sequences, FiniteSets, TLC

VARIABLES
    secrets_key,   \* st.secrets["OPENAI_API_KEY"], None when absent
    env_key,       \* os.getenv("OPENAI_API_KEY"), None when absent
    pc,            \* position of the script run
    runs,          \* number of script runs started so far
    url,           \* value of the text_input widget in this run
    button,        \* value of the "Generate Summary" button in this run
    summary_type,  \* value of the radio widget in this run
    video_id,      \* script local
    transcript,    \* script local / get_transcript result
    summary,       \* script local
    audio_path,    \* get_transcript local: name of the temporary file
    files,         \* temporary files that exist on disk
    tmpCount,      \* number of temporary files created so far
    calls,         \* collaborator calls made in this run, in order
    ui,            \* Streamlit elements emitted in this run, in order
    request,       \* chat completion request issued in this run
    fragments,     \* what the caption service returned in this run
    capOutcome,    \* how the caption fetch ended in this run
    dlOutcome,     \* how subprocess.run(yt-dlp) ended in this run
    sttOutcome,    \* how the Whisper call ended in this run
    llmOutcome     \* how the chat completion call ended in this run

vars == <<secrets_key, env_key, pc, runs, url, button, summary_type, video_id,
          transcript, summary, audio_path, files, tmpCount, calls, ui, request,
          fragments, capOutcome, dlOutcome, sttOutcome, llmOutcome>>

----------------------------------------------------------------------------
(* Bounds *)

MaxRuns == 3
MaxFragments == 2
MaxSegs == 3

----------------------------------------------------------------------------
(* Python values *)

None == <<>>
Some(x) == <<x>>

\* Python truthiness of an optional string: None and "" are falsy.
Truthy(v) == v # None /\ Len(v[1]) > 0

\* Truthiness of an optional api key given as a whole string.
TruthyKey(k) == k # None /\ k[1] # ""

RECURSIVE Count(_, _)
Count(s, e) ==
    IF s = <<>> THEN 0
    ELSE (IF s[1] = e THEN 1 ELSE 0) + Count(Tail(s), e)

Has(s, e) == \E i \in 1..Len(s) : s[i] = e

----------------------------------------------------------------------------
(* extract_video_id: re.findall(r"v=([a-zA-Z0-9_-]{11})", url)             *)

IdLen == 11

LowerAlpha ==
    <<"a","b","c","d","e","f","g","h","i","j","k","l","m",
      "n","o","p","q","r","s","t","u","v","w","x","y","z">>
UpperAlpha ==
    <<"A","B","C","D","E","F","G","H","I","J","K","L","M",
      "N","O","P","Q","R","S","T","U","V","W","X","Y","Z">>
Digits == <<"0","1","2","3","4","5","6","7","8","9">>

\* the character class [a-zA-Z0-9_-]
IdChars ==
    {LowerAlpha[i] : i \in 1..26} \cup {UpperAlpha[i] : i \in 1..26}
        \cup {Digits[i] : i \in 1..10} \cup {"_", "-"}

\* the pattern matches with its first character at position i
MatchAt(s, i) ==
    /\ i + 1 + IdLen <= Len(s)
    /\ s[i] = "v"
    /\ s[i + 1] = "="
    /\ \A k \in 1..IdLen : s[i + 1 + k] \in IdChars

\* re.findall: the groups of the non-overlapping matches, scanning left to
\* right; after a match the scan resumes behind it.
RECURSIVE FindAllFrom(_, _)
FindAllFrom(s, i) ==
    IF i > Len(s) THEN <<>>
    ELSE IF MatchAt(s, i)
         THEN <<SubSeq(s, i + 2, i + 1 + IdLen)>> \o FindAllFrom(s, i + 2 + IdLen)
         ELSE FindAllFrom(s, i + 1)

findall(s) == FindAllFrom(s, 1)

\* faulty variant: takes the last match (video_id[-1])
extract_video_id_last(u) ==
    LET m == findall(u) IN IF m # <<>> THEN Some(m[Len(m)]) ELSE None

extract_video_id(u) ==
    LET m == findall(u) IN IF m # <<>> THEN Some(m[1]) ELSE None

----------------------------------------------------------------------------
(* get_transcript helpers *)

\* faulty variant: "".join, no separator
RECURSIVE JoinNoSep(_)
JoinNoSep(frags) ==
    IF frags = <<>> THEN <<>> ELSE frags[1] \o JoinNoSep(Tail(frags))

\* " ".join([t['text'] for t in transcript])
RECURSIVE Join(_)
Join(frags) ==
    IF frags = <<>> THEN <<>>
    ELSE IF Len(frags) = 1 THEN frags[1]
    ELSE frags[1] \o <<" ">> \o Join(Tail(frags))

----------------------------------------------------------------------------
(* summarize_text helpers *)

LowerChar(c) ==
    IF \E i \in 1..26 : UpperAlpha[i] = c
    THEN LowerAlpha[CHOOSE i \in 1..26 : UpperAlpha[i] = c]
    ELSE c

\* faulty variant: the label is passed on without .lower()
LowerIdentity(s) == s

\* str.lower()
RECURSIVE Lower(_)
Lower(s) ==
    IF s = <<>> THEN <<>> ELSE <<LowerChar(s[1])>> \o Lower(Tail(s))

Whitespace == {" ", "\n", "\t"}

\* str.strip()
RECURSIVE LStrip(_)
LStrip(s) ==
    IF s # <<>> /\ s[1] \in Whitespace THEN LStrip(Tail(s)) ELSE s

RECURSIVE RStrip(_)
RStrip(s) ==
    IF s # <<>> /\ s[Len(s)] \in Whitespace
    THEN RStrip(SubSeq(s, 1, Len(s) - 1)) ELSE s

Strip(s) == RStrip(LStrip(s))

ShortLabel == <<"S","h","o","r","t">>
MediumLabel == <<"M","e","d","i","u","m">>
DetailedLabel == <<"D","e","t","a","i","l","e","d">>
RadioOptions == {ShortLabel, MediumLabel, DetailedLabel}

ShortTemplate == "Summarize this YouTube transcript in 3-4 sentences:\n"
MediumTemplate == "Summarize this YouTube transcript in 6-8 sentences:\n"
DetailedTemplate == "Provide a detailed summary (10-12 sentences):\n"
SystemRole == "You are a helpful summarizer."

\* the f-string prompt of summarize_text: the template followed by the text
Prompt(text, style) ==
    IF style = <<"s","h","o","r","t">> THEN <<ShortTemplate>> \o text
    ELSE IF style = <<"m","e","d","i","u","m">> THEN <<MediumTemplate>> \o text
    ELSE <<DetailedTemplate>> \o text

----------------------------------------------------------------------------
(* Inputs and collaborator results *)

VEq == <<"v","=">>
FullSeg == <<"v","=","d","Q","w","4","w","9","W","g","X","c","Q">>
TenSeg == <<"a","-","b","_","c","0","D","1","e","2">>
ElevenSeg == <<"0","1","2","3","4","5","6","7","8","9","A">>
AmpSeg == <<"&">>
XSeg == <<"x">>
Segments == {VEq, FullSeg, TenSeg, ElevenSeg, AmpSeg, XSeg}

RECURSIVE Concats(_)
Concats(n) ==
    IF n = 0 THEN {<<>>}
    ELSE LET P == Concats(n - 1) IN P \cup {p \o s : p \in P, s \in Segments}

\* inputs of the extraction specification
ExtractInputs == Concats(MaxSegs)

\* URLs the user may type in the pipeline specification
Urls ==
    { <<>>,
      <<"h","/","n","o">>,
      <<"?">> \o VEq \o TenSeg \o AmpSeg,
      <<"?">> \o FullSeg,
      <<"?">> \o VEq \o TenSeg \o FullSeg }

FragTexts == {<<>>, <<"a">>, <<"b","c">>}

RECURSIVE SeqsUpTo(_, _)
SeqsUpTo(S, n) ==
    IF n = 0 THEN {<<>>}
    ELSE LET P == SeqsUpTo(S, n - 1) IN P \cup {Append(p, s) : p \in P, s \in S}

CaptionResults == SeqsUpTo(FragTexts, MaxFragments)

SttTexts == {<<>>, <<"h","i">>}

LlmContents == {<<>>, <<" ","o","k","\n">>, <<"o","k">>}

KeyValues == {None, Some(""), Some("sk")}

Errors == {"error_nokey", "error_invalid", "error_generate", "error_fetch",
           "exception"}

----------------------------------------------------------------------------
(* The script run *)

Emit(e) == ui' = ui \o e
Call(c) == calls' = Append(calls, c)

conf == <<secrets_key, env_key>>
widgets == <<url, button, summary_type>>
outcomes == <<fragments, capOutcome, dlOutcome, sttOutcome, llmOutcome>>
disk == <<audio_path, files, tmpCount>>

\* st.secrets.get("OPENAI_API_KEY", os.getenv("OPENAI_API_KEY"))
api_key == IF secrets_key # None THEN secrets_key ELSE env_key

Init ==
    /\ secrets_key \in KeyValues
    /\ env_key \in KeyValues
    /\ pc = "start"
    /\ runs = 1
    /\ url = <<>>
    /\ button = FALSE
    /\ summary_type = ShortLabel
    /\ video_id = None
    /\ transcript = None
    /\ summary = None
    /\ audio_path = None
    /\ files = {}
    /\ tmpCount = 0
    /\ calls = <<>>
    /\ ui = <<>>
    /\ request = None
    /\ fragments = None
    /\ capOutcome = "none"
    /\ dlOutcome = "none"
    /\ sttOutcome = "none"
    /\ llmOutcome = "none"

\* faulty variant: the error is shown but st.stop() is missing
InitClient_nostop ==
    /\ pc = "start"
    /\ IF ~TruthyKey(api_key) THEN Emit(<<"error_nokey">>) ELSE UNCHANGED ui
    /\ pc' = "input"
    /\ UNCHANGED <<conf, runs, widgets, video_id, transcript, summary, disk,
                   calls, request, outcomes>>

\* lines 12-17: without a key the script shows an error and st.stop()s
InitClient ==
    /\ pc = "start"
    /\ IF ~TruthyKey(api_key)
       THEN Emit(<<"error_nokey">>) /\ pc' = "stopped"
       ELSE UNCHANGED ui /\ pc' = "input"
    /\ UNCHANGED <<conf, runs, widgets, video_id, transcript, summary, disk,
                   calls, request, outcomes>>

\* faulty variant: the `if not video_id` branch is missing
ReadUrl_nocheck ==
    /\ pc = "input"
    /\ IF url = <<>>
       THEN /\ Emit(<<"text_input">>)
            /\ pc' = "done"
            /\ UNCHANGED video_id
       ELSE /\ video_id' = extract_video_id(url)
            /\ Emit(<<"text_input">>)
            /\ pc' = "captions"
    /\ UNCHANGED <<conf, runs, widgets, transcript, summary, disk, calls,
                   request, outcomes>>

\* lines 93-101: read the URL, extract the id, branch on it
ReadUrl ==
    /\ pc = "input"
    /\ IF url = <<>>
       THEN /\ Emit(<<"text_input">>)
            /\ pc' = "done"
            /\ UNCHANGED video_id
       ELSE /\ video_id' = extract_video_id(url)
            /\ IF video_id' = None
               THEN Emit(<<"text_input", "error_invalid">>) /\ pc' = "done"
               ELSE Emit(<<"text_input">>) /\ pc' = "captions"
    /\ UNCHANGED <<conf, runs, widgets, transcript, summary, disk, calls,
                   request, outcomes>>

\* faulty variant: a failed caption fetch is tried a second time
TryCaptions_retry ==
    /\ pc = "captions"
    /\ \/ \E f \in CaptionResults :
            /\ Call("captions")
            /\ fragments' = Some(f)
            /\ capOutcome' = "ok"
            /\ transcript' = Some(Join(f))
            /\ pc' = "returned"
            /\ UNCHANGED ui
       \/ /\ calls' = calls \o <<"captions", "captions">>
          /\ capOutcome' = "raise"
          /\ Emit(<<"warning">>)
          /\ pc' = "download"
          /\ UNCHANGED <<fragments, transcript>>
    /\ UNCHANGED <<conf, runs, widgets, video_id, summary, disk, request,
                   dlOutcome, sttOutcome, llmOutcome>>

\* lines 31-37: the caption fetch; any exception falls through to the audio path
TryCaptions ==
    /\ pc = "captions"
    /\ \/ \E f \in CaptionResults :
            /\ Call("captions")
            /\ fragments' = Some(f)
            /\ capOutcome' = "ok"
            /\ transcript' = Some(Join(f))
            /\ pc' = "returned"
            /\ UNCHANGED ui
       \/ /\ Call("captions")
          /\ capOutcome' = "raise"
          /\ Emit(<<"warning">>)
          /\ pc' = "download"
          /\ UNCHANGED <<fragments, transcript>>
    /\ UNCHANGED <<conf, runs, widgets, video_id, summary, disk, request,
                   dlOutcome, sttOutcome, llmOutcome>>

\* lines 38-49: create the temporary file (delete=False) and run yt-dlp.
\* subprocess.run(check=False) returns normally on any exit status ("ok":
\* exit 0 with the audio written, "nonzero": the download failed); it raises
\* only when yt-dlp cannot be started.
DownloadAudio ==
    /\ pc = "download"
    /\ tmpCount' = tmpCount + 1
    /\ audio_path' = Some(tmpCount')
    /\ files' = files \cup {tmpCount'}
    /\ Call("download")
    /\ \E o \in {"ok", "nonzero", "raise"} :
         /\ dlOutcome' = o
         /\ IF o = "raise"
            THEN /\ Emit(<<"error_generate", "write_exception">>)
                 /\ transcript' = None
                 /\ pc' = "returned"
            ELSE /\ UNCHANGED <<ui, transcript>>
                 /\ pc' = "transcribe"
    /\ UNCHANGED <<conf, runs, widgets, video_id, summary, request, fragments,
                   capOutcome, sttOutcome, llmOutcome>>

\* lines 52-62: open the file, call Whisper, remove the file, return the text;
\* any exception is reported and None returned
Transcribe ==
    /\ pc = "transcribe"
    /\ IF audio_path[1] \notin files
       THEN \* open() raises FileNotFoundError
            /\ sttOutcome' = "not_called"
            /\ Emit(<<"error_generate", "write_exception">>)
            /\ transcript' = None
            /\ UNCHANGED <<calls, files>>
       ELSE /\ Call("transcribe")
            /\ \/ \E t \in SttTexts :
                    /\ sttOutcome' = "ok"
                    /\ files' = files \ {audio_path[1]}
                    /\ transcript' = Some(t)
                    /\ UNCHANGED ui
               \/ /\ sttOutcome' = "raise"
                  /\ Emit(<<"error_generate", "write_exception">>)
                  /\ transcript' = None
                  /\ UNCHANGED files
    /\ pc' = "returned"
    /\ UNCHANGED <<conf, runs, widgets, video_id, summary, audio_path, tmpCount,
                   request, fragments, capOutcome, dlOutcome, llmOutcome>>

\* faulty variant: tests `transcript is not None` instead of truthiness
ShowTranscript_notnone ==
    /\ pc = "returned"
    /\ IF transcript # None
       THEN /\ Emit(<<"success", "transcript", "radio", "button">>)
            /\ pc' = IF button THEN "summarize" ELSE "done"
       ELSE /\ Emit(<<"error_fetch">>)
            /\ pc' = "done"
    /\ UNCHANGED <<conf, runs, widgets, video_id, transcript, summary, disk,
                   calls, request, outcomes>>

\* lines 103-110 and 123-124: show the transcript and the widgets, or the error
ShowTranscript ==
    /\ pc = "returned"
    /\ IF Truthy(transcript)
       THEN /\ Emit(<<"success", "transcript", "radio", "button">>)
            /\ pc' = IF button THEN "summarize" ELSE "done"
       ELSE /\ Emit(<<"error_fetch">>)
            /\ pc' = "done"
    /\ UNCHANGED <<conf, runs, widgets, video_id, transcript, summary, disk,
                   calls, request, outcomes>>

\* faulty variant: the failure is caught and an empty summary shown
Summarize_swallow ==
    /\ pc = "summarize"
    /\ Call("llm")
    /\ request' = Some([system |-> SystemRole,
                        user |-> Prompt(transcript[1], Lower(summary_type))])
    /\ \/ \E c \in LlmContents :
            /\ llmOutcome' = "ok"
            /\ summary' = Some(Strip(c))
            /\ Emit(<<"subheader", "summary", "download">>)
            /\ pc' = "done"
       \/ \E o \in {"raise", "no_content"} :
            /\ llmOutcome' = o
            /\ summary' = Some(<<>>)
            /\ Emit(<<"exception", "subheader", "summary", "download">>)
            /\ pc' = "done"
    /\ UNCHANGED <<conf, runs, widgets, video_id, transcript, disk, fragments,
                   capOutcome, dlOutcome, sttOutcome>>

\* lines 111-122 with summarize_text (65-82): one chat completion request; an
\* exception of the request, or of .strip() on a None content, is not caught
\* and ends the script run
Summarize ==
    /\ pc = "summarize"
    /\ Call("llm")
    /\ request' = Some([system |-> SystemRole,
                        user |-> Prompt(transcript[1], Lower(summary_type))])
    /\ \/ \E c \in LlmContents :
            /\ llmOutcome' = "ok"
            /\ summary' = Some(Strip(c))
            /\ Emit(<<"subheader", "summary", "download">>)
            /\ pc' = "done"
       \/ \E o \in {"raise", "no_content"} :
            /\ llmOutcome' = o
            /\ Emit(<<"exception">>)
            /\ pc' = "crashed"
            /\ UNCHANGED summary
    /\ UNCHANGED <<conf, runs, widgets, video_id, transcript, disk, fragments,
                   capOutcome, dlOutcome, sttOutcome>>

\* Streamlit runs the script again from the top on every interaction: the
\* locals are gone, the widgets shown in the last run carry the user's input,
\* the temporary files stay on disk.
Rerun ==
    /\ pc \in {"done", "stopped", "crashed"}
    /\ runs < MaxRuns
    /\ runs' = runs + 1
    /\ url' \in (IF Has(ui, "text_input") THEN Urls ELSE {<<>>})
    /\ button' \in (IF Has(ui, "button") /\ url' = url THEN BOOLEAN ELSE {FALSE})
    /\ summary_type' \in (IF Has(ui, "radio") THEN RadioOptions ELSE {ShortLabel})
    /\ pc' = "start"
    /\ video_id' = None
    /\ transcript' = None
    /\ summary' = None
    /\ audio_path' = None
    /\ calls' = <<>>
    /\ ui' = <<>>
    /\ request' = None
    /\ fragments' = None
    /\ capOutcome' = "none"
    /\ dlOutcome' = "none"
    /\ sttOutcome' = "none"
    /\ llmOutcome' = "none"
    /\ UNCHANGED <<conf, files, tmpCount>>

Next ==
    \/ InitClient
    \/ ReadUrl
    \/ TryCaptions
    \/ DownloadAudio
    \/ Transcribe
    \/ ShowTranscript
    \/ Summarize
    \/ Rerun

Spec == Init /\ [][Next]_vars

----------------------------------------------------------------------------
(* extract_video_id applied to bounded inputs *)

InitExtract ==
    /\ secrets_key = Some("sk")
    /\ env_key = None
    /\ pc = "extract_call"
    /\ runs = 1
    /\ url \in ExtractInputs
    /\ button = FALSE
    /\ summary_type = ShortLabel
    /\ video_id = None
    /\ transcript = None
    /\ summary = None
    /\ audio_path = None
    /\ files = {}
    /\ tmpCount = 0
    /\ calls = <<>>
    /\ ui = <<>>
    /\ request = None
    /\ fragments = None
    /\ capOutcome = "none"
    /\ dlOutcome = "none"
    /\ sttOutcome = "none"
    /\ llmOutcome = "none"

ExtractCall ==
    /\ pc = "extract_call"
    /\ video_id' = extract_video_id(url)
    /\ pc' = "extract_ret"
    /\ UNCHANGED <<conf, runs, widgets, transcript, summary, disk, calls, ui,
                   request, outcomes>>

NextExtract == ExtractCall

SpecExtract == InitExtract /\ [][NextExtract]_vars

----------------------------------------------------------------------------
(* Properties *)

AcquisitionOrder == <<"captions", "download", "transcribe">>

IsAcquisitionCall(c) == c # "llm"
IsError(e) == e \in Errors

\* the collaborator calls of get_transcript made in this run
AcqCalls == SelectSeq(calls, IsAcquisitionCall)

\* get_transcript has returned in this run
Returned == pc \in {"returned", "summarize", "done", "crashed"} /\ Has(calls, "captions")

\* C1: when the caption fetch and the yt-dlp download both fail, get_transcript
\* returns None and the speech-to-text service was not called in that call.
C1_BothFailNoTranscription ==
    (Returned /\ capOutcome = "raise" /\ dlOutcome \in {"nonzero", "raise"})
        => (transcript = None /\ ~Has(calls, "transcribe"))

\* C2: when a get_transcript call that entered the audio path returns, the
\* temporary audio file it created does not exist, whichever way it ended.
C2_TempFileRemoved ==
    (Returned /\ audio_path # None) => audio_path[1] \notin files

\* position just before fragment i in the joined text
RECURSIVE Offset(_, _)
Offset(f, i) == IF i = 1 THEN 0 ELSE Offset(f, i - 1) + Len(f[i - 1]) + 1

\* C3: when the caption service succeeds, get_transcript returns the fragment
\* texts in the service's order with exactly one space between neighbours, and
\* neither the audio download nor the speech-to-text service is invoked.
C3_CaptionsJoined ==
    (Returned /\ capOutcome = "ok") =>
        /\ transcript # None
        /\ LET f == fragments[1]
               t == transcript[1]
           IN /\ Len(t) = (IF f = <<>> THEN 0 ELSE Offset(f, Len(f) + 1) - 1)
              /\ \A i \in 1..Len(f) :
                    /\ SubSeq(t, Offset(f, i) + 1, Offset(f, i) + Len(f[i])) = f[i]
                    /\ i < Len(f) => t[Offset(f, i) + Len(f[i]) + 1] = " "
        /\ AcqCalls = <<"captions">>
        /\ audio_path = None

C3_Witness ==
    /\ pc = "returned"
    /\ capOutcome = "ok"
    /\ Len(fragments[1]) = 2
    /\ fragments[1][1] # fragments[1][2]
    /\ fragments[1][1] # <<>>

\* C4: within one get_transcript call the caption fetch, the download and the
\* transcription are each invoked at most once and in that order; when the
\* captions fail and the download succeeds, download and transcription are each
\* invoked exactly once.
C4_NoRetries ==
    /\ \E n \in 0..Len(AcquisitionOrder) : AcqCalls = SubSeq(AcquisitionOrder, 1, n)
    /\ (Returned /\ capOutcome = "raise" /\ dlOutcome = "ok")
          => /\ Count(calls, "download") = 1
             /\ Count(calls, "transcribe") = 1
             /\ AcqCalls = AcquisitionOrder

C4_Witness ==
    pc = "returned" /\ capOutcome = "raise" /\ dlOutcome = "ok" /\ sttOutcome = "raise"

\* C5: when extract_video_id returns None for the entered URL the run ends with
\* the invalid-link error and no collaborator is contacted; extraction always
\* returns None or an 11-character id.
C5_InvalidLinkShortCircuit ==
    /\ (Has(ui, "text_input") /\ url # <<>> /\ video_id = None)
          => /\ pc = "done"
             /\ ui = <<"text_input", "error_invalid">>
             /\ calls = <<>>
             /\ request = None
             /\ audio_path = None
    /\ video_id = None \/ (Len(video_id) = 1 /\ Len(video_id[1]) = IdLen)

C5_Witness ==
    /\ pc = "done"
    /\ Has(ui, "error_invalid")
    /\ \E i \in 1..Len(url) : url[i] = "v" /\ url[i + 1] = "="

\* positions of url where "v=" is followed by at least 11 id characters
Occ(u) ==
    {i \in 1..Len(u) :
        /\ i + 1 + IdLen <= Len(u)
        /\ u[i] = "v" /\ u[i + 1] = "="
        /\ \A k \in (i + 2)..(i + 1 + IdLen) : u[k] \in IdChars}

\* C6: extract_video_id returns the 11 id characters behind the first "v="
\* that is followed by at least 11 id characters, and None exactly when the
\* string holds no such "v=".
C6_FirstToken ==
    pc = "extract_ret" =>
        IF Occ(url) = {}
        THEN video_id = None
        ELSE LET i == CHOOSE j \in Occ(url) : \A k \in Occ(url) : j <= k
             IN video_id = Some([k \in 1..IdLen |-> url[i + 1 + k]])

C6_Witness ==
    /\ pc = "extract_ret"
    /\ video_id # None
    /\ \E i, j \in Occ(url) :
          /\ j >= i + 2 + IdLen
          /\ SubSeq(url, i + 2, i + 1 + IdLen) # SubSeq(url, j + 2, j + 1 + IdLen)

\* C7: with no credential in the secrets and none in the environment, the run
\* shows the missing-key error and stops: no URL is read, no id is extracted, no
\* collaborator is called.
C7_NoKeyStops ==
    (secrets_key = None /\ env_key = None) =>
        /\ pc \in {"start", "stopped"}
        /\ pc = "stopped" => ui = <<"error_nokey">>
        /\ ~Has(ui, "text_input")
        /\ video_id = None
        /\ transcript = None
        /\ calls = <<>>
        /\ request = None

C7_Witness ==
    secrets_key = None /\ env_key = None /\ pc = "stopped" /\ runs > 1

\* C8: when the summarizer request fails, the run ends with exactly one error
\* shown and neither the summary heading, the summary text nor the download
\* button is produced.
C8_SummarizerFailure ==
    llmOutcome \in {"raise", "no_content"} =>
        /\ pc = "crashed"
        /\ summary = None
        /\ ~Has(ui, "subheader")
        /\ ~Has(ui, "summary")
        /\ ~Has(ui, "download")
        /\ Len(SelectSeq(ui, IsError)) = 1
        /\ ui[Len(ui)] = "exception"

C8_Witness ==
    llmOutcome = "raise" /\ pc = "crashed" /\ capOutcome = "raise"

UiTemplate(label) ==
    CASE label = ShortLabel -> ShortTemplate
      [] label = MediumLabel -> MediumTemplate
      [] label = DetailedLabel -> DetailedTemplate

\* C9: a summarize_text call issues exactly one request, whose prompt is the
\* template of the chosen style followed by the transcript: Short selects the
\* 3-4 sentence template, Medium the 6-8 one, Detailed the 10-12 one; the short
\* and the detailed prompt for one transcript differ.
C9_OneRequestFixedTemplate ==
    /\ Count(calls, "llm") <= 1
    /\ (request # None) <=> (Count(calls, "llm") = 1)
    /\ request # None =>
          /\ request[1].system = SystemRole
          /\ request[1].user = <<UiTemplate(summary_type)>> \o transcript[1]
          /\ Prompt(transcript[1], Lower(ShortLabel))
                # Prompt(transcript[1], Lower(DetailedLabel))

C9_Witness ==
    request # None /\ summary_type = MediumLabel /\ llmOutcome = "ok"

====
